---------------------------- MODULE Spec2Model ----------------------------
(***************************************************************************)
(* A model of jetson_stats_node_exporter: Jetson / JetsonExporter          *)
(* (exporter.py) and JtopObservable (jtop_stats.py).                       *)
(*                                                                         *)
(* Python values are modelled as follows.                                  *)
(*   dict           a function whose DOMAIN is the set of keys present     *)
(*   list / tuple   a sequence (Python index i is TLA+ index i + 1)        *)
(*   dict order     iteration follows a fixed order of the possible keys   *)
(*   time.time()    an integer number of clock ticks                       *)
(*   a / b          the exact rational a / b, as [num, den] in lowest      *)
(*                  terms with den > 0 (disk and network values)           *)
(*   raise          a mapper returns [exc, fams]; exc = "none" is a normal *)
(*                  return, otherwise the name of the exception raised     *)
(*   untyped fields (process fields, stats values, nvpmodel, uptime,       *)
(*                  jetson_clocks) are tagged values [t, n, s]             *)
(*   GaugeMetricFamily  [name, rows], a row being [labels, value]; name is *)
(*                  the name= argument the code passes                     *)
(***************************************************************************)
EXTENDS Integers, Sequences, FiniteSets, TLC

VARIABLES
    phase,          \* "new" | "ready" (Jetson constructed) | "refused" (constructor raised)
    prev_net_io,    \* JtopObservable.prev_net_io
    last_net_time,  \* JtopObservable.last_net_time
    now,            \* get_network_bandwidth: local now of the last call
    current,        \* get_network_bandwidth: local current of the last call
    interval,       \* get_network_bandwidth: local interval of the last call
    partitions,     \* get_storage_info: mount point -> psutil.disk_usage of the last call
    jtop_stats,     \* Jetson.jtop_stats
    disk,           \* Jetson.disk
    network,        \* Jetson.network
    families,       \* the metric families the last collect() yielded, in order
    raised          \* the exception the last collect() (or the constructor) raised, or "none"

vars == <<phase, prev_net_io, last_net_time, now, current, interval, partitions,
          jtop_stats, disk, network, families, raised>>

(***************************************************************************)
(* Bounds of the model.                                                    *)
(***************************************************************************)
MaxTime == 2        \* clock readings are 0..MaxTime
MaxTicks == 3       \* scrapes of a run that scrapes once every tick
MaxProcs == 2       \* rows of the process table
MaxLiteral == 12    \* largest decimal literal float() is asked to parse
MaxCores == 2       \* entries of the core list

(***************************************************************************)
(* Dictionaries, lists, numbers.                                           *)
(***************************************************************************)
EmptyDict == [k \in {} |-> 0]

\* dict.get(k, default)
Get(d, k, default) == IF k \in DOMAIN d THEN d[k] ELSE default

\* the keys of d in iteration order
Keys(d, order) == SelectSeq(order, LAMBDA k : k \in DOMAIN d)

RECURSIVE FlatMap(_, _, _)
\* the concatenation of F(i, s[i]) for i = from..Len(s): a for loop appending rows
FlatMap(F(_, _), s, from) ==
    IF from > Len(s) THEN <<>> ELSE F(from, s[from]) \o FlatMap(F, s, from + 1)

Abs(n) == IF n < 0 THEN -n ELSE n

RECURSIVE Gcd(_, _)
Gcd(a, b) == IF b = 0 THEN a ELSE Gcd(b, a % b)

\* Python's a / b for b # 0, as an exact rational
Div(a, b) ==
    LET n == IF b < 0 THEN -a ELSE a
        d == Abs(b)
        g == Gcd(Abs(n), d)
    IN  [num |-> n \div g, den |-> d \div g]

\* an integer as a value of a family that also holds quotients
Whole(n) == [num |-> n, den |-> 1]

Digit(d) ==
    CASE d = 0 -> "0" [] d = 1 -> "1" [] d = 2 -> "2" [] d = 3 -> "3" [] d = 4 -> "4"
      [] d = 5 -> "5" [] d = 6 -> "6" [] d = 7 -> "7" [] d = 8 -> "8" [] d = 9 -> "9"

RECURSIVE IntToStr(_)
\* str(n) of an int
IntToStr(n) ==
    IF n < 0 THEN "-" \o IntToStr(-n)
    ELSE IF n < 10 THEN Digit(n)
    ELSE IntToStr(n \div 10) \o Digit(n % 10)

\* str(b) of a bool
BoolToStr(b) == IF b THEN "True" ELSE "False"

\* str.lower() on the strings str() produces here
Lower(s) ==
    CASE s = "True" -> "true" [] s = "False" -> "false" [] s = "None" -> "none"
      [] OTHER -> s

(***************************************************************************)
(* Untyped values: ints, bools, strings, None, timedelta.                  *)
(***************************************************************************)
PyInt(n) == [t |-> "int", n |-> n, s |-> ""]
PyBool(b) == [t |-> "bool", n |-> IF b THEN 1 ELSE 0, s |-> ""]
PyStr(s) == [t |-> "str", n |-> 0, s |-> s]
PyNone == [t |-> "none", n |-> 0, s |-> ""]
PyTimedelta(seconds) == [t |-> "timedelta", n |-> seconds, s |-> ""]

\* bool(v)
Truthy(v) ==
    CASE v.t = "str" -> v.s # ""
      [] v.t = "none" -> FALSE
      [] OTHER -> v.n # 0

\* str(v)
ToStr(v) ==
    CASE v.t = "int" -> IntToStr(v.n)
      [] v.t = "bool" -> BoolToStr(v.n = 1)
      [] v.t = "str" -> v.s
      [] v.t = "none" -> "None"
      [] v.t = "timedelta" -> IntToStr(v.n) \o " s"

\* float(v): [exc, n]
ToFloat(v) ==
    CASE v.t \in {"int", "bool"} -> [exc |-> "none", n |-> v.n]
      [] v.t = "str" ->
            IF \E k \in 0..MaxLiteral : IntToStr(k) = v.s
            THEN [exc |-> "none", n |-> CHOOSE k \in 0..MaxLiteral : IntToStr(k) = v.s]
            ELSE [exc |-> "ValueError", n |-> 0]
      [] OTHER -> [exc |-> "TypeError", n |-> 0]

Family(name, rows) == [name |-> name, rows |-> rows]
Row(labels, value) == [labels |-> labels, value |-> value]
Returns(fams) == [exc |-> "none", fams |-> fams]
Raises(exc) == [exc |-> exc, fams |-> <<>>]

(***************************************************************************)
(* JtopObservable                                                          *)
(***************************************************************************)
unit_factor == 1000000000

\* get_storage_info: every metric of every mount point divided by unit_factor
get_storage_info(parts) ==
    [mp \in DOMAIN parts |->
        [metric \in DOMAIN parts[mp] |-> Div(parts[mp][metric], unit_factor)]]

\* a variant with the two directions exchanged
NetRatesSwapped(prev_stats, stats, elapsed) ==
    [rx_bytes_per_sec |-> Div(stats.bytes_sent - prev_stats.bytes_sent, elapsed),
     tx_bytes_per_sec |-> Div(stats.bytes_recv - prev_stats.bytes_recv, elapsed)]

\* get_network_bandwidth, the body of the loop for one interface
NetRates(prev_stats, stats, elapsed) ==
    [rx_bytes_per_sec |-> Div(stats.bytes_recv - prev_stats.bytes_recv, elapsed),
     tx_bytes_per_sec |-> Div(stats.bytes_sent - prev_stats.bytes_sent, elapsed)]

\* get_network_bandwidth: [exc, result]; the division raises when interval = 0
get_network_bandwidth(prev, last, cur, t) ==
    LET elapsed == t - last
        both == {iface \in DOMAIN cur : iface \in DOMAIN prev}
    IN  IF both # {} /\ elapsed = 0
        THEN [exc |-> "ZeroDivisionError", result |-> EmptyDict]
        ELSE [exc |-> "none",
              result |-> [iface \in both |-> NetRates(prev[iface], cur[iface], elapsed)]]


(***************************************************************************)
(* JetsonExporter: the mappers.  Each takes Jetson.jtop_stats (or          *)
(* Jetson.disk, Jetson.network) and returns Returns(families) or           *)
(* Raises(exception).                                                      *)
(***************************************************************************)
SensorOrder == <<"CPU", "GPU">>
RailOrder == <<"VDD_IN", "VDD_SOC">>
IfaceOrder == <<"eth0", "wlan0">>

\* a variant that reports the cores that are not online too
CoreHzRowsAnyCore(i, core_data) ==
    LET freq == Get(core_data, "freq", EmptyDict)
        core == IntToStr(i - 1)
    IN  <<Row(<<core, "cur">>, Get(freq, "cur", 0)),
          Row(<<core, "min">>, Get(freq, "min", 0)),
          Row(<<core, "max">>, Get(freq, "max", 0))>>

\* __cpu, the loop body for one core (core_number counts from 0)
CoreHzRows(i, core_data) ==
    IF ~Get(core_data, "online", FALSE) THEN <<>>
    ELSE LET freq == Get(core_data, "freq", EmptyDict)
             core == IntToStr(i - 1)
         IN  <<Row(<<core, "cur">>, Get(freq, "cur", 0)),
               Row(<<core, "min">>, Get(freq, "min", 0)),
               Row(<<core, "max">>, Get(freq, "max", 0))>>

CoreUtilizationRows(i, core_data) ==
    IF ~Get(core_data, "online", FALSE) THEN <<>>
    ELSE LET core == IntToStr(i - 1)
         IN  <<Row(<<core, "user">>, Get(core_data, "user", 0)),
               Row(<<core, "nice">>, Get(core_data, "nice", 0)),
               Row(<<core, "system">>, Get(core_data, "system", 0)),
               Row(<<core, "idle">>, Get(core_data, "idle", 0))>>

\* __cpu, the rows of the aggregate block: "if total_data:" is false for an empty dict
TotalUtilizationRows(total_data) ==
    IF DOMAIN total_data = {} THEN <<>>
    ELSE <<Row(<<"total", "user">>, Get(total_data, "user", 0)),
           Row(<<"total", "nice">>, Get(total_data, "nice", 0)),
           Row(<<"total", "system">>, Get(total_data, "system", 0)),
           Row(<<"total", "idle">>, Get(total_data, "idle", 0))>>

cpu(stats) ==
    LET cpu_data == Get(stats, "cpu", EmptyDict)
        core_list == Get(cpu_data, "cpu", <<>>)
        total_data == Get(cpu_data, "total", EmptyDict)
    IN  Returns(<<Family("cpu_Hz", FlatMap(CoreHzRows, core_list, 1)),
                  Family("cpu_utilization_percent",
                         FlatMap(CoreUtilizationRows, core_list, 1)
                            \o TotalUtilizationRows(total_data))>>)

gpu(stats) ==
    LET gpu_data == Get(Get(stats, "gpu", EmptyDict), "gpu", EmptyDict)
        status == Get(gpu_data, "status", EmptyDict)
        freq == Get(gpu_data, "freq", EmptyDict)
        gpc == Get(freq, "GPC", <<>>)
    IN  Returns(<<Family("gpu_utilization_percent",
                         <<Row(<<"integrated">>, Get(status, "load", 0))>>),
                  Family("gpu_frequency_hz",
                         <<Row(<<"integrated", "cur">>, Get(freq, "cur", 0)),
                           Row(<<"integrated", "min">>, Get(freq, "min", 0)),
                           Row(<<"integrated", "max">>, Get(freq, "max", 0))>>
                            \o (IF Len(gpc) > 0
                                THEN <<Row(<<"integrated", "gpc0">>, gpc[1])>>
                                ELSE <<>>))>>)

ram(stats) ==
    LET ram_data == Get(Get(stats, "memory", EmptyDict), "RAM", EmptyDict)
    IN  Returns(<<Family("ram",
                         <<Row(<<"total">>, Get(ram_data, "tot", 0)),
                           Row(<<"used">>, Get(ram_data, "used", 0)),
                           Row(<<"free">>, Get(ram_data, "free", 0)),
                           Row(<<"buffers">>, Get(ram_data, "buffers", 0)),
                           Row(<<"cached">>, Get(ram_data, "cached", 0)),
                           Row(<<"shared">>, Get(ram_data, "shared", 0))>>)>>)

swap(stats) ==
    LET data == Get(Get(stats, "memory", EmptyDict), "SWAP", EmptyDict)
    IN  Returns(<<Family("swap",
                         <<Row(<<"total">>, Get(data, "tot", 0)),
                           Row(<<"used">>, Get(data, "used", 0)),
                           Row(<<"cached">>, Get(data, "cached", 0))>>)>>)

emc(stats) ==
    LET data == Get(Get(stats, "memory", EmptyDict), "EMC", EmptyDict)
    IN  Returns(<<Family("emc",
                         <<Row(<<"cur">>, Get(data, "cur", 0)),
                           Row(<<"max">>, Get(data, "max", 0)),
                           Row(<<"min">>, Get(data, "min", 0))>>)>>)

\* a variant whose floor is exclusive
system_critical_below(temp, online) == Lower(BoolToStr(~online \/ temp < -255))

\* __temperature: str(not online or temp <= -255).lower()
system_critical(temp, online) == Lower(BoolToStr(~online \/ temp <= -255))

temperature(stats) ==
    LET temperature_data == Get(stats, "temperature", EmptyDict)
        SensorRow(i, part) ==
            LET temp_info == temperature_data[part]
                temp == Get(temp_info, "temp", -999)
                online == Get(temp_info, "online", FALSE)
            IN  <<Row(<<"temp", part, system_critical(temp, online)>>, temp)>>
    IN  Returns(<<Family("temperature",
                         FlatMap(SensorRow, Keys(temperature_data, SensorOrder), 1))>>)

\* __integrated_power_machine_parts: the online and critical labels of one rail
RailLabels(part, reading) ==
    LET online_val == Get(reading, "online", FALSE)
        crit_val == Get(reading, "crit", 0)
    IN  <<part, Lower(BoolToStr(online_val)), Lower(BoolToStr(crit_val # 0))>>

integrated_power_machine_parts(stats) ==
    LET power_data == Get(Get(stats, "power", EmptyDict), "rail", EmptyDict)
        parts == Keys(power_data, RailOrder)
        Rows(field) ==
            LET RailRow(i, part) ==
                    <<Row(RailLabels(part, power_data[part]),
                          Get(power_data[part], field, 0))>>
            IN  FlatMap(RailRow, parts, 1)
    IN  Returns(<<Family("power_voltage_millivolts", Rows("volt")),
                  Family("power_current_milliamps", Rows("curr")),
                  Family("power_consumption_milliwatts", Rows("power")),
                  Family("power_average_milliwatts", Rows("avg")),
                  Family("power_warn_threshold_milliwatts", Rows("warn"))>>)

integrated_power_total(stats) ==
    LET total_power == Get(Get(stats, "power", EmptyDict), "tot", EmptyDict)
    IN  Returns(<<Family("power_consumption_milliwatts",
                         <<Row(<<"power">>, Get(total_power, "power", 0))>>),
                  Family("power_average_milliwatts",
                         <<Row(<<"avg_power">>, Get(total_power, "avg", 0))>>)>>)

\* __fan: fan_data.get("speed", [0])[0] raises IndexError on an empty list
fan(stats) ==
    LET fan_data == Get(Get(stats, "fan", EmptyDict), "pwmfan", EmptyDict)
        speed == Get(fan_data, "speed", <<0>>)
        rpm == Get(fan_data, "rpm", <<0>>)
        profile == Get(fan_data, "profile", "unknown")
        governor == Get(fan_data, "governor", "unknown")
        control == Get(fan_data, "control", "unknown")
    IN  IF Len(speed) = 0 \/ Len(rpm) = 0 THEN Raises("IndexError")
        ELSE Returns(<<Family("fan_speed_percent", <<Row(<<"pwmfan">>, speed[1])>>),
                       Family("fan_rpm", <<Row(<<"pwmfan">>, rpm[1])>>),
                       Family("fan_config_info",
                              <<Row(<<"pwmfan", profile, governor, control>>, 1)>>)>>)

\* __nvpmodel: "if not nvpmodel: return []"
nvpmodel(stats) ==
    LET model == Get(stats, "nvpmodel", PyNone)
    IN  IF ~Truthy(model) THEN Returns(<<>>)
        ELSE Returns(<<Family("nvpmodel_info", <<Row(<<ToStr(model)>>, 1)>>)>>)

\* __disk: the keys looked up in Jetson.disk, whose keys are mount points
disk_rows(disk_data) ==
    <<Row(<<"total">>, Get(disk_data, "total", Whole(0))),
      Row(<<"used">>, Get(disk_data, "used", Whole(0))),
      Row(<<"available">>, Get(disk_data, "available", Whole(0))),
      Row(<<"available_no_root">>, Get(disk_data, "available_no_root", Whole(0)))>>

disk_mapper(disk_data) == Returns(<<Family("disk", disk_rows(disk_data))>>)

uptime(stats) ==
    LET value == Get(stats, "uptime", PyNone)
        uptime_seconds == IF Truthy(value) THEN value.n ELSE 0
    IN  Returns(<<Family("uptime", <<Row(<<"alive">>, uptime_seconds)>>)>>)

(***************************************************************************)
(* __stats.  The keys of the summary block are sequences of characters, so *)
(* that startswith, slicing, lower and replace are computed as Python      *)
(* computes them; the values are untyped values.                           *)
(***************************************************************************)
StartsWith(key, prefix) ==
    Len(key) >= Len(prefix) /\ SubSeq(key, 1, Len(prefix)) = prefix

\* key[n:]
From(key, n) == SubSeq(key, n + 1, Len(key))

LowerChar(c) ==
    CASE c = "A" -> "a" [] c = "B" -> "b" [] c = "C" -> "c" [] c = "D" -> "d"
      [] c = "E" -> "e" [] c = "F" -> "f" [] c = "G" -> "g" [] c = "H" -> "h"
      [] c = "I" -> "i" [] c = "J" -> "j" [] c = "K" -> "k" [] c = "L" -> "l"
      [] c = "M" -> "m" [] c = "N" -> "n" [] c = "O" -> "o" [] c = "P" -> "p"
      [] c = "Q" -> "q" [] c = "R" -> "r" [] c = "S" -> "s" [] c = "T" -> "t"
      [] c = "U" -> "u" [] c = "V" -> "v" [] c = "W" -> "w" [] c = "X" -> "x"
      [] c = "Y" -> "y" [] c = "Z" -> "z" [] OTHER -> c

\* s.lower().replace(" ", "_")
LowerUnderscored(s) ==
    [i \in 1..Len(s) |-> IF s[i] = " " THEN "_" ELSE LowerChar(s[i])]

UsageKeys ==
    {<<"R", "A", "M">>, <<"S", "W", "A", "P">>, <<"E", "M", "C">>, <<"G", "P", "U">>}

Engines ==
    {<<"A", "P", "E">>,
     <<"D", "L", "A", "0", "_", "C", "O", "R", "E">>,
     <<"D", "L", "A", "0", "_", "F", "A", "L", "C", "O", "N">>,
     <<"D", "L", "A", "1", "_", "C", "O", "R", "E">>,
     <<"D", "L", "A", "1", "_", "F", "A", "L", "C", "O", "N">>,
     <<"N", "V", "D", "E", "C">>,
     <<"N", "V", "E", "N", "C">>,
     <<"N", "V", "J", "P", "G">>,
     <<"N", "V", "J", "P", "G", "1">>,
     <<"O", "F", "A">>,
     <<"P", "V", "A", "0", "_", "C", "P", "U", "_", "A", "X", "I">>,
     <<"P", "V", "A", "0", "_", "V", "P", "S">>,
     <<"S", "E">>,
     <<"V", "I", "C">>}

\* the body of the loop for one key: the gauge that gets a row ("" for none), the
\* row, and the exception that escapes the loop
StatsEntry(key, val) ==
    LET parsed == ToFloat(val)
        Entry(exc, gauge, label, value) ==
            [exc |-> exc, gauge |-> gauge, row |-> Row(<<label>>, value)]
        Numeric(gauge, label) == Entry(parsed.exc, gauge, label, parsed.n)
    IN  IF StartsWith(key, <<"C", "P", "U">>)
        THEN IF parsed.exc = "ValueError"
             THEN Entry("none", "cpu", From(key, 3), 0)
             ELSE Numeric("cpu", From(key, 3))
        ELSE IF key \in UsageKeys THEN Numeric("usage", key)
        ELSE IF key \in Engines
        THEN Entry("none", "engine", key, IF val = PyStr("OFF") THEN 0 ELSE 1)
        ELSE IF StartsWith(key, <<"F", "a", "n", " ">>)
        THEN Numeric("fan", LowerUnderscored(From(key, 4)))
        ELSE IF StartsWith(key, <<"T", "e", "m", "p", " ">>)
        THEN Numeric("temp", LowerUnderscored(From(key, 5)))
        ELSE IF StartsWith(key, <<"P", "o", "w", "e", "r", " ">>)
        THEN Numeric("power", From(key, 6))
        ELSE Entry("none", "", key, 0)

StatsKeyOrder ==
    <<<<"C", "P", "U", "1">>, <<"R", "A", "M">>, <<"A", "P", "E">>,
      <<"F", "a", "n", " ", "p", "w", "m", "f", "a", "n", "0">>,
      <<"T", "e", "m", "p", " ", "C", "P", "U">>,
      <<"P", "o", "w", "e", "r", " ", "V", "D", "D", "_", "I", "N">>,
      <<"t", "i", "m", "e">>>>

stats_mapper(stats) ==
    LET stats_data == Get(stats, "stats", EmptyDict)
        keys == Keys(stats_data, StatsKeyOrder)
        KeyEntry(i, key) == <<StatsEntry(key, stats_data[key])>>
        entries == FlatMap(KeyEntry, keys, 1)
        failing == {i \in 1..Len(keys) : entries[i].exc # "none"}
        first == CHOOSE i \in failing : \A j \in failing : i <= j
        Rows(gauge) ==
            LET EntryRow(i, e) == IF e.gauge = gauge THEN <<e.row>> ELSE <<>>
            IN  FlatMap(EntryRow, entries, 1)
    IN  IF failing # {} THEN Raises(entries[first].exc)
        ELSE Returns(<<Family("stats_cpu_utilization_percent", Rows("cpu")),
                       Family("stats_resource_usage_percent", Rows("usage")),
                       Family("stats_engine_status", Rows("engine")),
                       Family("stats_fan_pwm_percent", Rows("fan")),
                       Family("stats_temperature_celsius", Rows("temp")),
                       Family("stats_power_milliwatts", Rows("power"))>>)

(***************************************************************************)
(* __processes.  A row of the table is [t |-> "list", items] or, for a row *)
(* that is no sequence, [t |-> "none", items |-> <<>>].                    *)
(***************************************************************************)
PyList(items) == [t |-> "list", items |-> items]
NotAList == [t |-> "none", items |-> <<>>]

\* a variant that reads gpu, mem and rss one field early
ParseProcOneEarly(proc) ==
    LET r == proc.items
        Failed(exc) == [exc |-> exc, pid |-> "", user |-> "", name |-> "",
                        gpu |-> 0, mem |-> 0, rss |-> 0]
        Field(i) == IF Len(r) <= i THEN [exc |-> "IndexError", n |-> 0]
                    ELSE ToFloat(r[i + 1])
    IN  IF proc.t # "list" THEN Failed("TypeError")
        ELSE IF Len(r) < 2 THEN Failed("IndexError")
        ELSE IF Field(5).exc # "none" THEN Failed(Field(5).exc)
        ELSE IF Field(6).exc # "none" THEN Failed(Field(6).exc)
        ELSE IF Field(7).exc # "none" THEN Failed(Field(7).exc)
        ELSE [exc |-> "none", pid |-> ToStr(r[1]), user |-> ToStr(r[2]),
              name |-> ToStr(r[Len(r)]),
              gpu |-> Field(5).n, mem |-> Field(6).n, rss |-> Field(7).n]

\* the try block: [exc, pid, user, name, gpu, mem, rss]
ParseProc(proc) ==
    LET r == proc.items
        Failed(exc) == [exc |-> exc, pid |-> "", user |-> "", name |-> "",
                        gpu |-> 0, mem |-> 0, rss |-> 0]
        \* float(proc[i]), i counted from 0
        Field(i) == IF Len(r) <= i THEN [exc |-> "IndexError", n |-> 0]
                    ELSE ToFloat(r[i + 1])
    IN  IF proc.t # "list" THEN Failed("TypeError")
        ELSE IF Len(r) < 2 THEN Failed("IndexError")
        ELSE IF Field(6).exc # "none" THEN Failed(Field(6).exc)
        ELSE IF Field(7).exc # "none" THEN Failed(Field(7).exc)
        ELSE IF Field(8).exc # "none" THEN Failed(Field(8).exc)
        ELSE [exc |-> "none", pid |-> ToStr(r[1]), user |-> ToStr(r[2]),
              name |-> ToStr(r[Len(r)]),
              gpu |-> Field(6).n, mem |-> Field(7).n, rss |-> Field(8).n]

\* the loop body for one row: the rows it adds to the three gauges
ProcRows(proc) ==
    LET p == ParseProc(proc)
        labels == <<p.pid, p.user, p.name>>
    IN  IF p.exc \in {"IndexError", "ValueError", "TypeError"}
        THEN [gpu |-> <<>>, mem |-> <<>>, rss |-> <<>>]
        ELSE [gpu |-> <<Row(labels, p.gpu)>>, mem |-> <<Row(labels, p.mem)>>,
              rss |-> <<Row(labels, p.rss)>>]

processes(stats) ==
    LET table == Get(stats, "processes", <<>>)
        Added(i, proc) == <<ProcRows(proc)>>
        added == FlatMap(Added, table, 1)
        Gpu(i, rows) == rows.gpu
        Mem(i, rows) == rows.mem
        Rss(i, rows) == rows.rss
    IN  Returns(<<Family("process_gpu_usage_percent", FlatMap(Gpu, added, 1)),
                  Family("process_memory_usage_kb", FlatMap(Mem, added, 1)),
                  Family("process_memory_rss_kb", FlatMap(Rss, added, 1))>>)

jetson_clocks(stats) ==
    LET clocks_enabled == Get(stats, "jetson_clocks", PyBool(FALSE))
    IN  Returns(<<Family("jetson_clocks",
                         <<Row(<<Lower(ToStr(clocks_enabled))>>, 1)>>)>>)

network_bandwidth(net) ==
    LET IfaceRows(i, iface) ==
            <<Row(<<iface, "rx">>, net[iface].rx_bytes_per_sec),
              Row(<<iface, "tx">>, net[iface].tx_bytes_per_sec)>>
    IN  Returns(<<Family("network_bandwidth_bytes_per_second",
                         FlatMap(IfaceRows, Keys(net, IfaceOrder), 1))>>)

(***************************************************************************)
(* Jetson and JetsonExporter.collect                                       *)
(***************************************************************************)
\* read_stats: the twelve properties of the jtop object
read_stats(jetson) ==
    [k \in {"cpu", "disk", "fan", "gpu", "jetson_clocks", "memory", "nvpmodel",
            "power", "processes", "stats", "temperature", "uptime"} |-> jetson[k]]

RECURSIVE Yielded(_, _)
\* "yield from" over the mappers' results from the i-th on: what is yielded
\* before the first one that raises, and its exception
Yielded(results, i) ==
    IF i > Len(results) THEN Returns(<<>>)
    ELSE IF results[i].exc # "none" THEN Raises(results[i].exc)
    ELSE LET rest == Yielded(results, i + 1)
         IN  [exc |-> rest.exc, fams |-> results[i].fams \o rest.fams]

\* the mappers in the order collect() runs them
Mappers(stats, disk_data, net) ==
    <<cpu(stats), gpu(stats), ram(stats), swap(stats), emc(stats),
      temperature(stats), integrated_power_machine_parts(stats),
      integrated_power_total(stats), fan(stats), nvpmodel(stats),
      disk_mapper(disk_data), uptime(stats), stats_mapper(stats), processes(stats),
      jetson_clocks(stats), network_bandwidth(net)>>

MinPeriod == 500    \* 0.5 s, in milliseconds

\* Jetson.__init__ and JtopObservable.__init__
Construct(update_period, counters, t) ==
    /\ phase = "new"
    /\ IF update_period < MinPeriod
       THEN /\ phase' = "refused"
            /\ raised' = "BlockingIOError"
            /\ UNCHANGED <<prev_net_io, last_net_time>>
       ELSE /\ phase' = "ready"
            /\ raised' = "none"
            /\ prev_net_io' = counters
            /\ last_net_time' = t
    /\ UNCHANGED <<now, current, interval, partitions, jtop_stats, disk, network,
                   families>>

\* JetsonExporter.collect, with Jetson.update: jetson is the jtop object, parts
\* and counters what psutil reports, t what time.time() returns
Collect(jetson, parts, counters, t) ==
    LET bandwidth == get_network_bandwidth(prev_net_io, last_net_time, counters, t)
        storage == get_storage_info(parts)
        snapshot == read_stats(jetson)
        out == Yielded(Mappers(snapshot, storage, bandwidth.result), 1)
    IN  /\ phase = "ready"
        /\ jtop_stats' = snapshot
        /\ partitions' = parts
        /\ disk' = storage
        /\ now' = t
        /\ current' = counters
        /\ interval' = t - last_net_time
        /\ IF bandwidth.exc # "none"
           THEN /\ raised' = bandwidth.exc
                /\ families' = <<>>
                /\ UNCHANGED <<network, prev_net_io, last_net_time>>
           ELSE /\ network' = bandwidth.result
                /\ prev_net_io' = counters
                /\ last_net_time' = t
                /\ raised' = out.exc
                /\ families' = out.fams
        /\ UNCHANGED phase

(***************************************************************************)
(* What the collaborators can report: the jtop object, psutil, the clock.  *)
(***************************************************************************)
Clock == 0..MaxTime
Periods == {100, 500, 1000}

Interfaces == {"eth0", "wlan0"}
ByteCounts == {0, 3}
\* eth0 carries the traffic; wlan0 comes and goes with its counters at rest
IfaceStats(iface) ==
    IF iface = "eth0" THEN [bytes_recv : ByteCounts, bytes_sent : ByteCounts]
    ELSE {[bytes_recv |-> 3, bytes_sent |-> 3]}
CounterSamples ==
    UNION {{c \in [S -> UNION {IfaceStats(i) : i \in S}] :
                \A i \in S : c[i] \in IfaceStats(i)} : S \in SUBSET Interfaces}
BaseCounters == [iface \in {"eth0"} |-> [bytes_recv |-> 3, bytes_sent |-> 0]]

Usage(total, used) ==
    [total |-> total, used |-> used, free |-> total - used, percent |-> 50]
Usages == {Usage(1000000000, 0), Usage(2000000000, 1000000000)}
PartitionValues == UNION {[S -> Usages] : S \in SUBSET {"/", "/boot"}}
BaseParts == [mp \in {"/"} |-> Usage(2000000000, 1000000000)]

\* a dict with the fields D, out of a record r holding every field
Only(r, D) == [k \in D |-> r[k]]

GoodProc ==
    PyList(<<PyInt(101), PyStr("root"), PyStr("I"), PyStr("Graphic"), PyInt(20),
             PyStr("S"), PyInt(5), PyInt(12), PyInt(7), PyStr("python3")>>)
ProcTemplates ==
    {GoodProc,
     \* nine fields: the last one is both rss and name
     PyList(<<PyInt(102), PyStr("nv"), PyStr("I"), PyStr("Graphic"), PyInt(20),
              PyStr("S"), PyInt(0), PyStr("9"), PyInt(3)>>),
     \* eight fields
     PyList(<<PyInt(103), PyStr("nv"), PyStr("I"), PyStr("Graphic"), PyInt(20),
              PyStr("S"), PyInt(1), PyInt(2)>>),
     PyList(<<>>),
     \* gpu% is not a number
     PyList(<<PyInt(104), PyStr("nv"), PyStr("I"), PyStr("Graphic"), PyInt(20),
              PyStr("S"), PyStr("n/a"), PyInt(4), PyInt(5), PyStr("Xorg")>>),
     \* mem is None
     PyList(<<PyInt(105), PyStr("nv"), PyStr("I"), PyStr("Graphic"), PyInt(20),
              PyStr("S"), PyInt(6), PyNone, PyInt(8), PyStr("gnome")>>)}
ProcessesValues == UNION {[1..n -> ProcTemplates] : n \in 0..MaxProcs}

TempReadings == {-999, -256, -255, -254, 45}
SensorInfos ==
    {Only([temp |-> r, online |-> o], D) :
        r \in TempReadings, o \in BOOLEAN, D \in SUBSET {"temp", "online"}}
\* the CPU sensor takes every reading; the GPU sensor a few
GpuSensorInfos ==
    {[temp |-> 45, online |-> TRUE], [temp |-> -255, online |-> TRUE],
     [temp |-> -999, online |-> FALSE], [online |-> TRUE]}
SensorMap(S, cpu_info, gpu_info) ==
    [s \in S |-> IF s = "CPU" THEN cpu_info ELSE gpu_info]
TemperatureValues ==
    {SensorMap(S, c, g) : S \in SUBSET {"CPU", "GPU"}, c \in SensorInfos,
                          g \in GpuSensorInfos}

RailReadings ==
    {Only([online |-> o, crit |-> c, volt |-> 5000, curr |-> 400, power |-> 2000,
           avg |-> 1900, warn |-> 3000], D \cup {"volt", "curr", "power"}) :
        o \in BOOLEAN, c \in {0, 1},
        D \in {{}, {"online"}, {"crit"}, {"online", "crit", "avg", "warn"}}}
RailValues == UNION {[S -> RailReadings] : S \in SUBSET {"VDD_IN"}}
PowerValues ==
    {EmptyDict} \cup {[rail |-> r, tot |-> [power |-> 4000, avg |-> 3800]] : r \in RailValues}
        \cup {[rail |-> [p \in {"VDD_IN", "VDD_SOC"} |->
                            [online |-> p = "VDD_IN", crit |-> 0, volt |-> 5000]]]}

FullFan ==
    [speed |-> <<40>>, rpm |-> <<1200>>, profile |-> "quiet", governor |-> "cont",
     control |-> "close_loop"]
FanValues ==
    {EmptyDict, [pwmfan |-> EmptyDict], [pwmfan |-> FullFan],
     [pwmfan |-> Only(FullFan, {"speed", "profile"})],
     [pwmfan |-> [FullFan EXCEPT !.rpm = <<>>]],
     [other |-> FullFan]}

Core(on) ==
    [online |-> on, freq |-> [cur |-> 1200, min |-> 100, max |-> 2000],
     user |-> 10, nice |-> 0, system |-> 5, idle |-> 85]
Total == [user |-> 10, nice |-> 0, system |-> 5, idle |-> 85]
CpuValues ==
    {EmptyDict,
     [total |-> Total, cpu |-> <<Core(TRUE), Core(FALSE)>>],
     [total |-> EmptyDict, cpu |-> <<Core(FALSE), Core(TRUE)>>],
     [cpu |-> <<Only(Core(TRUE), {"online"}), Only(Core(TRUE), {"freq", "user"})>>]}

GpuValues ==
    {EmptyDict,
     [gpu |-> [status |-> [load |-> 30],
               freq |-> [cur |-> 600, min |-> 300, max |-> 900, GPC |-> <<600>>]]],
     [gpu |-> [freq |-> [cur |-> 600, GPC |-> <<>>]]]}

MemoryValues ==
    {EmptyDict,
     [RAM |-> [tot |-> 8000, used |-> 3000, free |-> 5000, buffers |-> 10,
               cached |-> 20, shared |-> 30],
      SWAP |-> [tot |-> 4000, used |-> 0, cached |-> 0],
      EMC |-> [cur |-> 1600, max |-> 2133, min |-> 204]],
     [RAM |-> [tot |-> 8000]]}

NvpmodelValues == {PyNone, PyStr(""), PyStr("MAXN"), PyInt(0)}
UptimeValues == {PyNone, PyTimedelta(0), PyTimedelta(3600)}
ClocksValues == {PyNone, PyBool(FALSE), PyBool(TRUE)}

FullStats ==
    [k \in {StatsKeyOrder[i] : i \in 1..Len(StatsKeyOrder)} |->
        CASE k = <<"C", "P", "U", "1">> -> PyInt(12)
          [] k = <<"A", "P", "E">> -> PyStr("OFF")
          [] k = <<"t", "i", "m", "e">> -> PyStr("08:00")
          [] OTHER -> PyInt(7)]
StatsValues ==
    {EmptyDict, FullStats,
     [FullStats EXCEPT ![<<"C", "P", "U", "1">>] = PyStr("OFF")],
     [FullStats EXCEPT ![<<"C", "P", "U", "1">>] = PyNone],
     [FullStats EXCEPT ![<<"R", "A", "M">>] = PyStr("n/a")],
     [FullStats EXCEPT ![<<"A", "P", "E">>] = PyStr("ON")],
     [FullStats EXCEPT ![<<"T", "e", "m", "p", " ", "C", "P", "U">>] = PyStr("9")]}

\* a jtop object with every domain populated
BaseJetson ==
    [cpu |-> [total |-> Total, cpu |-> <<Core(TRUE), Core(FALSE)>>],
     disk |-> EmptyDict,
     fan |-> [pwmfan |-> FullFan],
     gpu |-> [gpu |-> [status |-> [load |-> 30],
                       freq |-> [cur |-> 600, min |-> 300, max |-> 900,
                                 GPC |-> <<600>>]]],
     jetson_clocks |-> PyBool(TRUE),
     memory |-> [RAM |-> [tot |-> 8000]],
     nvpmodel |-> PyStr("MAXN"),
     power |-> [rail |-> [p \in {"VDD_IN"} |-> [online |-> TRUE, crit |-> 0,
                                                volt |-> 5000]],
                tot |-> [power |-> 4000, avg |-> 3800]],
     processes |-> <<GoodProc>>,
     stats |-> FullStats,
     temperature |-> [s \in {"CPU"} |-> [temp |-> 45, online |-> TRUE]],
     uptime |-> PyTimedelta(3600)]

\* a jtop object with no data in any domain
EmptyJetson ==
    [k \in DOMAIN BaseJetson |->
        CASE k \in {"jetson_clocks", "nvpmodel", "uptime"} -> PyNone
          [] k = "processes" -> <<>>
          [] OTHER -> EmptyDict]

\* the jtop objects that differ from BaseJetson in the domain k
Varying(k, values) == {[BaseJetson EXCEPT ![k] = v] : v \in values}

Jetsons ==
    Varying("cpu", CpuValues) \cup Varying("fan", FanValues)
        \cup Varying("gpu", GpuValues) \cup Varying("jetson_clocks", ClocksValues)
        \cup Varying("memory", MemoryValues) \cup Varying("nvpmodel", NvpmodelValues)
        \cup Varying("power", PowerValues) \cup Varying("stats", StatsValues)
        \cup Varying("uptime", UptimeValues)
        \cup Varying("processes", {<<>>, <<NotAList, GoodProc>>})
        \cup Varying("temperature", {EmptyDict, [s \in {"GPU"} |-> EmptyDict]})
        \cup {EmptyJetson}

(***************************************************************************)
(* Specifications.  Init is the process before JetsonExporter(...) runs.   *)
(***************************************************************************)
Init ==
    /\ phase = "new"
    /\ prev_net_io = EmptyDict
    /\ last_net_time = 0
    /\ now = 0
    /\ current = EmptyDict
    /\ interval = 0
    /\ partitions = EmptyDict
    /\ jtop_stats = EmptyDict
    /\ disk = EmptyDict
    /\ network = EmptyDict
    /\ families = <<>>
    /\ raised = "none"

\* the clock readings of a scrape: the same tick as the last one, or the next
NextTicks == {t \in Clock : t \in {last_net_time, last_net_time + 1}}

\* every domain of the snapshot and the mount points vary, one at a time
Next ==
    \/ \E p \in Periods : Construct(p, BaseCounters, 0)
    \/ \E j \in Jetsons, t \in NextTicks : Collect(j, BaseParts, BaseCounters, t)
    \/ \E parts \in PartitionValues, t \in NextTicks :
            Collect(BaseJetson, parts, BaseCounters, t)

Spec == Init /\ [][Next]_vars

\* the network counters and the clock vary
NextNet ==
    \/ \E p \in Periods, c \in CounterSamples, t \in Clock : Construct(p, c, t)
    \/ \E c \in CounterSamples, t \in Clock : Collect(EmptyJetson, BaseParts, c, t)

SpecNet == Init /\ [][NextNet]_vars

\* the temperature sensors vary, a scrape every tick
NextTemp ==
    \/ \E p \in Periods : Construct(p, BaseCounters, 0)
    \/ \E v \in TemperatureValues :
            /\ last_net_time < MaxTicks
            /\ Collect([BaseJetson EXCEPT !.temperature = v], BaseParts, BaseCounters,
                       last_net_time + 1)

SpecTemp == Init /\ [][NextTemp]_vars

\* the process table varies over an otherwise empty snapshot, a scrape every tick
NextProc ==
    \/ \E p \in Periods : Construct(p, BaseCounters, 0)
    \/ \E v \in ProcessesValues :
            /\ last_net_time < MaxTicks
            /\ Collect([EmptyJetson EXCEPT !.processes = v], BaseParts, BaseCounters,
                       last_net_time + 1)

SpecProc == Init /\ [][NextProc]_vars

\* the shapes of a core entry: online, offline, no online field, online with
\* nothing else
CoreShapes ==
    {Core(TRUE), Core(FALSE), Only(Core(TRUE), {"freq", "user"}),
     Only(Core(TRUE), {"online"})}
CoreLists == UNION {[1..n -> CoreShapes] : n \in 0..MaxCores}
\* the cpu domain: any core list with the aggregate block or without it, and
\* an aggregate block that is an empty dict
CpuInputs ==
    {[cpu |-> l] : l \in CoreLists} \cup {[total |-> Total, cpu |-> l] : l \in CoreLists}
        \cup {[total |-> EmptyDict, cpu |-> <<Core(TRUE)>>]}

\* the cpu domain varies over an otherwise empty snapshot, a scrape every tick
NextCpu ==
    \/ \E p \in Periods : Construct(p, BaseCounters, 0)
    \/ \E v \in CpuInputs :
            /\ last_net_time < MaxTicks
            /\ Collect([EmptyJetson EXCEPT !.cpu = v], BaseParts, BaseCounters,
                       last_net_time + 1)

SpecCpu == Init /\ [][NextCpu]_vars

(***************************************************************************)
(* What a cycle yielded.                                                   *)
(***************************************************************************)
\* the last collect() ran to completion
Completed == phase = "ready" /\ raised = "none" /\ families # <<>>

FamilyNames == FlatMap(LAMBDA i, f : <<f.name>>, families, 1)

Yields(name) == \E i \in 1..Len(families) : families[i].name = name

\* the rows of the first family of that name (<<>> when there is none)
RowsOf(name) ==
    LET named == SelectSeq(families, LAMBDA f : f.name = name)
    IN  IF named = <<>> THEN <<>> ELSE named[1].rows

\* the rows of a family whose label at position pos is value
RowsWith(name, pos, value) ==
    SelectSeq(RowsOf(name), LAMBDA r : r.labels[pos] = value)

NetFamily == "network_bandwidth_bytes_per_second"
HasRow(iface) == RowsWith(NetFamily, 1, iface) # <<>>
HasBothRows(iface) ==
    /\ Yields(NetFamily)
    /\ Len(RowsWith(NetFamily, 1, iface)) = 2
    /\ \E r \in {"rx"}, s \in {"tx"} :
          /\ RowsWith(NetFamily, 1, iface)[1].labels = <<iface, r>>
          /\ RowsWith(NetFamily, 1, iface)[2].labels = <<iface, s>>

(***************************************************************************)
(* C1 (SpecNet): in a get_network_bandwidth call with t = now -            *)
(* last_net_time > 0, every interface in both the retained sample and the  *)
(* current one gets rx rate = (current.bytes_recv - previous.bytes_recv)/t *)
(* and tx rate = (current.bytes_sent - previous.bytes_sent)/t, and the     *)
(* call does not raise; the first call after construction included, whose  *)
(* retained sample is the one the constructor read.                        *)
(***************************************************************************)
C1_RateIsDeltaOverElapsed ==
    [][(phase = "ready" /\ now' - last_net_time > 0) =>
        /\ raised' = "none"
        /\ \A iface \in DOMAIN current' \cap DOMAIN prev_net_io :
              /\ iface \in DOMAIN network'
              /\ network'[iface].rx_bytes_per_sec.num * (now' - last_net_time)
                    = (current'[iface].bytes_recv - prev_net_io[iface].bytes_recv)
                        * network'[iface].rx_bytes_per_sec.den
              /\ network'[iface].tx_bytes_per_sec.num * (now' - last_net_time)
                    = (current'[iface].bytes_sent - prev_net_io[iface].bytes_sent)
                        * network'[iface].tx_bytes_per_sec.den]_vars

\* a call two ticks after the last one that saw eth0 receive 3 bytes and send none
C1_Witness ==
    /\ Completed
    /\ interval = 2
    /\ "eth0" \in DOMAIN network
    /\ network["eth0"].rx_bytes_per_sec = [num |-> 3, den |-> 2]
    /\ network["eth0"].tx_bytes_per_sec = [num |-> 0, den |-> 1]

(***************************************************************************)
(* C2 (SpecNet): when the elapsed time now - last_net_time is zero or      *)
(* negative, get_network_bandwidth does not raise and gives rx and tx rate *)
(* 0 to every interface in both the retained and the current sample.       *)
(***************************************************************************)
C2_NonPositiveElapsedGivesZero ==
    [][(phase = "ready" /\ now' - last_net_time <= 0) =>
        /\ raised' = "none"
        /\ \A iface \in DOMAIN current' \cap DOMAIN prev_net_io :
              /\ iface \in DOMAIN network'
              /\ network'[iface] = [rx_bytes_per_sec |-> Whole(0),
                                    tx_bytes_per_sec |-> Whole(0)]]_vars

(***************************************************************************)
(* C3 (SpecNet): in a cycle, an interface in the current sample but not in *)
(* the retained one has no row in network_bandwidth_bytes_per_second; an   *)
(* interface absent from the current sample has no row; and an interface   *)
(* that was new in the cycle before (that cycle completed and gave it no   *)
(* rate) and is in the current sample again has both its rx and tx rows.   *)
(***************************************************************************)
NewLastCycle(iface) ==
    Completed /\ iface \in DOMAIN current /\ iface \notin DOMAIN network

C3_NewInterfaceReportedNextCycle ==
    [][phase = "ready" =>
        \A iface \in Interfaces :
            /\ (iface \in DOMAIN current' /\ iface \notin DOMAIN prev_net_io)
                    => ~HasRow(iface)'
            /\ iface \notin DOMAIN current' => ~HasRow(iface)'
            /\ (NewLastCycle(iface) /\ iface \in DOMAIN current')
                    => HasBothRows(iface)']_vars

(***************************************************************************)
(* C4 (Spec): once the exporter is constructed no collect() raises; the    *)
(* only exception is the constructor's, for a sampling interval below the  *)
(* floor.                                                                  *)
(***************************************************************************)
C4_CollectNeverRaises == raised # "none" => phase = "refused"

(***************************************************************************)
(* C5 (Spec): the total and used rows of the disk family carry the root    *)
(* mount point's byte counts divided by 10^9 when "/" is among the mount   *)
(* points, and every row of the family is 0 when it is not.                *)
(***************************************************************************)
DiskRow(statistic) == RowsWith("disk", 1, statistic)[1].value

C5_DiskRowsCarryRoot ==
    Yields("disk") =>
        IF "/" \in DOMAIN partitions
        THEN /\ DiskRow("total") = Div(partitions["/"].total, 1000000000)
             /\ DiskRow("used") = Div(partitions["/"].used, 1000000000)
        ELSE \A s \in {"total", "used", "available", "available_no_root"} :
                DiskRow(s) = Whole(0)

(***************************************************************************)
(* C6 (Spec): every completed cycle yields the same sequence of family     *)
(* names, whatever the snapshot holds.                                     *)
(***************************************************************************)
AllFamilyNames ==
    <<"cpu_Hz", "cpu_utilization_percent", "gpu_utilization_percent",
      "gpu_frequency_hz", "ram", "swap", "emc", "temperature",
      "power_voltage_millivolts", "power_current_milliamps",
      "power_consumption_milliwatts", "power_average_milliwatts",
      "power_warn_threshold_milliwatts", "power_consumption_milliwatts",
      "power_average_milliwatts", "fan_speed_percent", "fan_rpm", "fan_config_info",
      "nvpmodel_info", "disk", "uptime", "stats_cpu_utilization_percent",
      "stats_resource_usage_percent", "stats_engine_status", "stats_fan_pwm_percent",
      "stats_temperature_celsius", "stats_power_milliwatts",
      "process_gpu_usage_percent", "process_memory_usage_kb", "process_memory_rss_kb",
      "jetson_clocks", "network_bandwidth_bytes_per_second">>

C6_FamilyNamesFixed == Completed => FamilyNames = AllFamilyNames

(***************************************************************************)
(* C7 (Spec): when the snapshot has no fan domain, fan_speed_percent,      *)
(* fan_rpm and fan_config_info are each yielded with zero rows.            *)
(***************************************************************************)
C7_NoFanZeroRows ==
    (Completed /\ DOMAIN jtop_stats["fan"] = {}) =>
        \A name \in {"fan_speed_percent", "fan_rpm", "fan_config_info"} :
            Yields(name) /\ RowsOf(name) = <<>>

(***************************************************************************)
(* C8 (Spec): on each of the five per-rail families the row of a rail has  *)
(* critical = "true" if the rail is offline (online false or missing) or   *)
(* its crit indicator is set, and "false" otherwise.                       *)
(***************************************************************************)
RailFamilies ==
    {"power_voltage_millivolts", "power_current_milliamps",
     "power_consumption_milliwatts", "power_average_milliwatts",
     "power_warn_threshold_milliwatts"}

Rails == Get(Get(jtop_stats, "power", EmptyDict), "rail", EmptyDict)

C8_CriticalLabel ==
    Completed =>
        \A part \in DOMAIN Rails, name \in RailFamilies :
            LET offline == ~Get(Rails[part], "online", FALSE)
                indicator == Get(Rails[part], "crit", 0) # 0
                rows == RowsWith(name, 1, part)
            IN  /\ Len(rows) = 1
                /\ rows[1].labels[3] = IF offline \/ indicator THEN "true" ELSE "false"

(***************************************************************************)
(* C9 (SpecTemp): whenever a cycle yields the temperature family, it holds *)
(* exactly one row per sensor of the snapshot; the row's value is the      *)
(* sensor's temp (-999 when the field is missing) and its system_critical  *)
(* label is "true" exactly when the sensor is offline (online false or     *)
(* missing) or its temp is at or below -255, and "false" otherwise.        *)
(***************************************************************************)
Sensors == Get(jtop_stats, "temperature", EmptyDict)

C9_TemperatureRows ==
    Yields("temperature") =>
        /\ Len(RowsOf("temperature")) = Cardinality(DOMAIN Sensors)
        /\ \A part \in DOMAIN Sensors :
            LET rows == RowsWith("temperature", 2, part)
                reading == IF "temp" \in DOMAIN Sensors[part]
                           THEN Sensors[part].temp ELSE -999
                offline == IF "online" \in DOMAIN Sensors[part]
                           THEN ~Sensors[part].online ELSE TRUE
            IN  /\ Len(rows) = 1
                /\ rows[1].value = reading
                /\ rows[1].labels[1] = "temp"
                /\ rows[1].labels[3] \in {"true", "false"}
                /\ rows[1].labels[3] = "true" <=> (offline \/ reading <= -255)

\* an offline sensor at -999, an online one at 45, and their rows
C9_Witness ==
    /\ Yields("temperature")
    /\ DOMAIN Sensors = {"CPU", "GPU"}
    /\ Sensors["CPU"] = [temp |-> -999, online |-> FALSE]
    /\ Sensors["GPU"] = [temp |-> 45, online |-> TRUE]
    /\ RowsOf("temperature")
         = <<Row(<<"temp", "CPU", "true">>, -999), Row(<<"temp", "GPU", "false">>, 45)>>

(***************************************************************************)
(* C10 (SpecProc): whenever a cycle yields the process families, the rows  *)
(* of the table with fewer than nine fields or with a gpu%, mem or rss     *)
(* field that float() rejects add nothing and raise nothing, and the other *)
(* rows, in table order, each add one row to each of the three families,   *)
(* labelled with the row's pid, user and name (its last field) and valued  *)
(* with its gpu%, mem and rss.                                             *)
(***************************************************************************)
ProcTable == Get(jtop_stats, "processes", <<>>)

IsNumber(v) == ToFloat(v).exc = "none"

WellFormed(proc) ==
    /\ proc.t = "list"
    /\ Len(proc.items) >= 9
    /\ \A i \in 7..9 : IsNumber(proc.items[i])

\* the rows of family `name` are those of the well-formed table rows, field
\* `field` (counted from 1) being the value
ProcRowsAre(name, field) ==
    LET kept == SelectSeq(ProcTable, WellFormed)
        rows == RowsOf(name)
    IN  /\ Yields(name)
        /\ Len(rows) = Len(kept)
        /\ \A i \in 1..Len(kept) :
              LET items == kept[i].items
              IN  /\ rows[i].labels = <<ToStr(items[1]), ToStr(items[2]),
                                        ToStr(items[Len(items)])>>
                  /\ rows[i].value = ToFloat(items[field]).n

C10_ProcessRows ==
    Yields("process_gpu_usage_percent") =>
        /\ ProcRowsAre("process_gpu_usage_percent", 7)
        /\ ProcRowsAre("process_memory_usage_kb", 8)
        /\ ProcRowsAre("process_memory_rss_kb", 9)

\* a short row first, then a well-formed one: only the second is reported
C10_Witness ==
    /\ Completed
    /\ Len(ProcTable) = 2
    /\ Len(ProcTable[1].items) = 8
    /\ ProcTable[2] = GoodProc
    /\ RowsOf("process_gpu_usage_percent") = <<Row(<<"101", "root", "python3">>, 5)>>
    /\ RowsOf("process_memory_usage_kb") = <<Row(<<"101", "root", "python3">>, 12)>>
    /\ RowsOf("process_memory_rss_kb") = <<Row(<<"101", "root", "python3">>, 7)>>

(***************************************************************************)
(* C11 (SpecCpu): whenever a cycle yields the cpu families, a core of the  *)
(* list that is not online (online false or missing) has no row in cpu_Hz  *)
(* or cpu_utilization_percent, an online core has exactly the 3 cpu_Hz     *)
(* rows cur, min, max and the 4 utilization rows user, nice, system, idle  *)
(* under its index in the list, no other per-core row exists, and the 4    *)
(* utilization rows labelled "total" are there if and only if the          *)
(* snapshot's aggregate block is a non-empty dict.  As first stated, the   *)
(* "total" rows are there if and only if the aggregate block is present.   *)
(***************************************************************************)
CpuData == Get(jtop_stats, "cpu", EmptyDict)
CoreList == Get(CpuData, "cpu", <<>>)

Labels(rows, pos) == [i \in 1..Len(rows) |-> rows[i].labels[pos]]

Online(core_data) == "online" \in DOMAIN core_data /\ core_data.online

\* the rows of the cores, and of "total" when the condition has_total holds
CpuRowsAre(has_total) ==
    LET hz == RowsOf("cpu_Hz")
        utilization == RowsOf("cpu_utilization_percent")
        online == {i \in 1..Len(CoreList) : Online(CoreList[i])}
        total == RowsWith("cpu_utilization_percent", 1, "total")
    IN  /\ Yields("cpu_utilization_percent")
        /\ \A i \in 1..Len(CoreList) :
              LET core == IntToStr(i - 1)
              IN  /\ Labels(RowsWith("cpu_Hz", 1, core), 2)
                        = IF i \in online THEN <<"cur", "min", "max">> ELSE <<>>
                  /\ Labels(RowsWith("cpu_utilization_percent", 1, core), 2)
                        = IF i \in online THEN <<"user", "nice", "system", "idle">>
                          ELSE <<>>
        /\ Len(hz) = 3 * Cardinality(online)
        /\ Len(utilization) = 4 * Cardinality(online) + Len(total)
        /\ Labels(total, 2)
              = IF has_total THEN <<"user", "nice", "system", "idle">> ELSE <<>>

C11_CpuRows ==
    Yields("cpu_Hz") =>
        CpuRowsAre("total" \in DOMAIN CpuData /\ DOMAIN CpuData.total # {})

C11_TotalRowsIffBlockPresent ==
    Yields("cpu_Hz") => CpuRowsAre("total" \in DOMAIN CpuData)

\* two cores, the second one offline, and an aggregate block
C11_Witness ==
    /\ Yields("cpu_Hz")
    /\ CpuData = [total |-> Total, cpu |-> <<Core(TRUE), Core(FALSE)>>]
    /\ Labels(RowsOf("cpu_Hz"), 1) = <<"0", "0", "0">>
    /\ Labels(RowsOf("cpu_utilization_percent"), 1)
          = <<"0", "0", "0", "0", "total", "total", "total", "total">>

(***************************************************************************)
(* C12 (SpecNet): after every get_network_bandwidth call, whatever the     *)
(* interfaces skipped and whatever the elapsed time, the retained counters *)
(* are the counters read in that call and the retained time is that call's *)
(* timestamp.                                                              *)
(***************************************************************************)
C12_RetainsLastSample ==
    [][phase = "ready" => (prev_net_io' = current' /\ last_net_time' = now')]_vars

(***************************************************************************)
(* C13 (Spec): in a cycle whose snapshot is sound but for the summary      *)
(* stats block and whose clock has advanced, nothing is raised; a key of   *)
(* the block matching no recognized name or prefix adds no row to any      *)
(* stats_* family; and every key under a numeric name or prefix (CPU*,     *)
(* RAM/SWAP/EMC/GPU, "Fan ", "Temp ", "Power ") has its one row, valued    *)
(* with the parsed number, or with 0 when the value fails to parse.        *)
(***************************************************************************)
StatsData == Get(jtop_stats, "stats", EmptyDict)

\* the family and the label a numeric key reports under ("" for other keys)
StatsTarget(key) ==
    LET Target(family, label) == [family |-> family, label |-> label]
    IN  IF StartsWith(key, <<"C", "P", "U">>)
        THEN Target("stats_cpu_utilization_percent", From(key, 3))
        ELSE IF key \in UsageKeys THEN Target("stats_resource_usage_percent", key)
        ELSE IF key \in Engines THEN Target("", key)
        ELSE IF StartsWith(key, <<"F", "a", "n", " ">>)
        THEN Target("stats_fan_pwm_percent", LowerUnderscored(From(key, 4)))
        ELSE IF StartsWith(key, <<"T", "e", "m", "p", " ">>)
        THEN Target("stats_temperature_celsius", LowerUnderscored(From(key, 5)))
        ELSE IF StartsWith(key, <<"P", "o", "w", "e", "r", " ">>)
        THEN Target("stats_power_milliwatts", From(key, 6))
        ELSE Target("", key)

StatsFamilies ==
    <<"stats_cpu_utilization_percent", "stats_resource_usage_percent",
      "stats_engine_status", "stats_fan_pwm_percent", "stats_temperature_celsius",
      "stats_power_milliwatts">>

\* only the stats block departs from a fully populated snapshot, and the
\* clock has advanced since the last sample
OnlyStatsVaries ==
    /\ phase = "ready"
    /\ interval > 0
    /\ DOMAIN jtop_stats = DOMAIN BaseJetson
    /\ \A k \in DOMAIN BaseJetson \ {"stats"} : jtop_stats[k] = BaseJetson[k]

C13_StatsBlockNeverAborts ==
    OnlyStatsVaries =>
        /\ raised = "none"
        /\ \A i \in 1..Len(StatsFamilies) : Yields(StatsFamilies[i])
        /\ \A key \in DOMAIN StatsData :
              LET target == StatsTarget(key)
                  parsed == ToFloat(StatsData[key])
              IN  IF target.family = ""
                  THEN key \in Engines
                          \/ \A i \in 1..Len(StatsFamilies) :
                                RowsWith(StatsFamilies[i], 1, key) = <<>>
                  ELSE RowsWith(target.family, 1, target.label)
                          = <<Row(<<target.label>>,
                                  IF parsed.exc = "none" THEN parsed.n ELSE 0)>>
        /\ Len(FlatMap(LAMBDA i, name : RowsOf(name), StatsFamilies, 1))
              = Cardinality({key \in DOMAIN StatsData :
                                key \in Engines \/ StatsTarget(key).family # ""})
=============================================================================
